---- MODULE Spec2Model ----
(***************************************************************************)
(* Model of addressesfrpy.api.AddressFr: the two operations async_search   *)
(* and async_reverse, the request layer they await, and the response       *)
(* validator _check_response.                                              *)
(*                                                                         *)
(* Spec runs up to MaxCalls calls on one client; the calls are coroutines  *)
(* and may overlap: a call can start while others await their request.     *)
(* SpecValidator applies _check_response to every body of Bodies.          *)
(*                                                                         *)
(* Python values are records [kind, val]:                                  *)
(*   None       [kind |-> "NoneType", val |-> 0]                           *)
(*   bool       [kind |-> "bool",     val |-> TRUE / FALSE]                *)
(*   int        [kind |-> "int",      val |-> n]                           *)
(*   str        [kind |-> "str",      val |-> "text"]                      *)
(*   list       [kind |-> "list",     val |-> << v1, ..., vn >>]           *)
(*   dict       [kind |-> "dict",     val |-> << <<k1, v1>>, ... >>]       *)
(* A dict keeps its keys in insertion order, as Python's does.             *)
(***************************************************************************)
EXTENDS Integers, Sequences, FiniteSets, TLC

VARIABLES
    pc,        \* pc[c]: position of coroutine c: idle / awaiting / returned / raised / done
    op,        \* op[c]: the operation coroutine c runs: none / search / reverse
    args,      \* args[c]: the arguments of the call
    requests,  \* requests[c]: the calls of async_request coroutine c made, in order
    reply,     \* reply[c]: what async_request gave coroutine c: a body or a raised error
    checked,   \* checked[c]: number of _check_response invocations of coroutine c
    outcome,   \* outcome[c]: what the call gave its caller: a returned value or a raised error
    input,     \* the argument of a direct invocation of _check_response
    result     \* what that invocation gave: a returned value or a raised error

vars == <<pc, op, args, requests, reply, checked, outcome, input, result>>

\* The locals of the coroutines; the calls of one client share nothing else.
coros == <<pc, op, args, requests, reply, checked, outcome>>

----------------------------------------------------------------------------
(* Bounds of the model *)

MaxFeatures == 2
\* The number of calls made on the client.
MaxCalls == 2

----------------------------------------------------------------------------
(* Python values *)

PyNone == [kind |-> "NoneType", val |-> 0]
PyBool(b) == [kind |-> "bool", val |-> b]
PyInt(n) == [kind |-> "int", val |-> n]
PyStr(s) == [kind |-> "str", val |-> s]
PyList(items) == [kind |-> "list", val |-> items]
PyDict(entries) == [kind |-> "dict", val |-> entries]

\* bool(v): the truth value Python's `not v` / `v and ...` test.
Truthy(v) ==
    CASE v.kind = "NoneType" -> FALSE
      [] v.kind = "bool" -> v.val
      [] v.kind = "int" -> v.val # 0
      [] v.kind = "str" -> Len(v.val) > 0
      [] v.kind = "list" -> Len(v.val) > 0
      [] v.kind = "dict" -> Len(v.val) > 0

\* isinstance(v, dict)
IsDict(v) == v.kind = "dict"

\* `k in d` for a dict d
In(k, d) == \E i \in 1..Len(d.val) : d.val[i][1] = k

\* d[k] for a dict d holding k
GetItem(d, k) == d.val[CHOOSE i \in 1..Len(d.val) : d.val[i][1] = k][2]

\* d[k] = v on the entries of a dict: an existing key keeps its position.
SetItem(entries, k, v) ==
    IF \E i \in 1..Len(entries) : entries[i][1] = k
    THEN [i \in 1..Len(entries) |->
            IF entries[i][1] = k THEN <<k, v>> ELSE entries[i]]
    ELSE Append(entries, <<k, v>>)

\* {**entries, **more}: the entries of `more` set one after the other.
RECURSIVE Update(_, _)
Update(entries, more) ==
    IF more = <<>> THEN entries
    ELSE Update(SetItem(entries, Head(more)[1], Head(more)[2]), Tail(more))

Digit(d) == SubSeq("0123456789", d + 1, d + 1)

\* str(n) for an int n >= 0
RECURSIVE IntStr(_)
IntStr(n) == IF n < 10 THEN Digit(n) ELSE IntStr(n \div 10) \o Digit(n % 10)

\* str(v), as an f-string's {v} renders it
Str(v) ==
    CASE v.kind = "NoneType" -> "None"
      [] v.kind = "bool" -> IF v.val THEN "True" ELSE "False"
      [] v.kind = "int" -> IntStr(v.val)
      [] v.kind = "str" -> v.val

----------------------------------------------------------------------------
(* What a call gives its caller *)

NoOutcome == [kind |-> "none", exc |-> "", msg |-> "", value |-> PyNone, cause |-> ""]

\* return value
Return(value) ==
    [kind |-> "return", exc |-> "", msg |-> "", value |-> value, cause |-> ""]

\* raise exc(msg) from cause   (cause "" when there is no `from`)
Raise(exc, msg, cause) ==
    [kind |-> "raise", exc |-> exc, msg |-> msg, value |-> PyNone, cause |-> cause]

----------------------------------------------------------------------------
(* _check_response, api.py lines 111-123 *)

\* Variant of FirstBranch: the branch taken only for a non-empty `features`
\* value, as `response.get("features")` would test.
FirstBranch_RequiresNonEmptyFeatures(response) ==
    /\ Truthy(response)
    /\ IsDict(response)
    /\ In("features", response)
    /\ Truthy(GetItem(response, "features"))

\* line 113: the condition of the first branch
FirstBranch(response) ==
    /\ Truthy(response)
    /\ IsDict(response)
    /\ In("features", response)

\* Variant of FeaturesBranch: the whole body returned instead of its
\* `features` value.
FeaturesBranch_ReturnsBody(response) ==
    LET features == GetItem(response, "features") IN
    IF ~Truthy(features)
    THEN Raise("AddressNotFound", "No addresses found for the given query.", "")
    ELSE Return(response)

\* lines 114-117: the first branch's body
FeaturesBranch(response) ==
    LET features == GetItem(response, "features") IN
    IF ~Truthy(features)
    THEN Raise("AddressNotFound", "No addresses found for the given query.", "")
    ELSE Return(features)

\* Variant of IsInvalid: `response is None` in place of `not response`.
IsInvalid_NoneOnly(response) == response = PyNone \/ ~IsDict(response)

\* line 118
IsInvalid(response) == ~Truthy(response) \/ ~IsDict(response)

\* line 119
InvalidResponseError ==
    Raise("AddressFrException", "Invalid response from address service.", "")

\* Variant of ErrorInResponse: the message a plain string, not an f-string.
ErrorInResponse_NotFormatted(response) ==
    Raise("AddressFrException", "Error in response: {response['error']}", "")

\* line 121
ErrorInResponse(response) ==
    Raise("AddressFrException",
          "Error in response: " \o Str(GetItem(response, "error")), "")

\* Variant of NoFeatures: `and` in place of `not in ... or`.
NoFeatures_PresentAndEmpty(response) ==
    In("features", response) /\ ~Truthy(GetItem(response, "features"))

\* line 122
NoFeatures(response) ==
    ~In("features", response) \/ ~Truthy(GetItem(response, "features"))

\* Variant of NoFeaturesError: AddressNotFound raised.
NoFeaturesError_NotFound ==
    Raise("AddressNotFound", "No features found in the response.", "")

\* line 123
NoFeaturesError ==
    Raise("AddressFrException", "No features found in the response.", "")

\* Variant of _check_response: the `error` key tested before the `features`
\* key.
_check_response_ErrorFirst(response) ==
    IF IsInvalid(response) THEN InvalidResponseError
    ELSE IF In("error", response) THEN ErrorInResponse(response)
    ELSE IF In("features", response) THEN FeaturesBranch(response)
    ELSE NoFeaturesError

\* lines 111-123; a function body that ends without `return` returns None.
_check_response(response) ==
    IF FirstBranch(response) THEN FeaturesBranch(response)
    ELSE IF IsInvalid(response) THEN InvalidResponseError
    ELSE IF In("error", response) THEN ErrorInResponse(response)
    ELSE IF NoFeatures(response) THEN NoFeaturesError
    ELSE Return(PyNone)

----------------------------------------------------------------------------
(* The request layer (addressesfrpy.auth) and the constants module *)

\* addressesfrpy.consts.API_BASE_URL: the base URL of the service
API_BASE_URL == "<API_BASE_URL>"

\* The transport errors of the request layer: the generic request failure, the
\* timeout and the request exception.
TransportErrors == {"HttpRequestError", "TimeoutExceededError", "RequestException"}

\* What the awaited async_request can raise into the coroutine: a transport
\* error, or the cancellation of the task (not a transport error).
RaisedErrors == TransportErrors \cup {"CancelledError"}

\* isinstance(error, HttpRequestError): what `except HttpRequestError` catches.
IsHttpRequestError(error) == error \in TransportErrors

NoReply == [kind |-> "none", body |-> PyNone, error |-> ""]

----------------------------------------------------------------------------
(* Inputs *)

\* The default of the limit parameter of async_search (line 18).
DefaultLimit == 10

\* One feature record, opaque to the client.
Feature(label) == PyDict(<< <<"label", PyStr(label)>> >>)

Features == {Feature("10 Rue de Rivoli 75004 Paris"), Feature("Paris")}

\* Non-empty lists of at most MaxFeatures feature records.
FeatureLists ==
    {PyList(items) : items \in UNION {[1..n -> Features] : n \in 1..MaxFeatures}}

\* The values bool() takes for false.
EmptyValues ==
    {PyNone, PyBool(FALSE), PyInt(0), PyStr(""), PyList(<<>>), PyDict(<<>>)}

\* Values of the `features` key: empty ones, lists of features, other values.
FeatureVals ==
    EmptyValues \cup FeatureLists
        \cup {PyInt(5), PyStr("x"), PyBool(TRUE), Feature("Paris")}

\* Values of the `error` key.
ErrorVals == {PyStr("bad query"), PyStr(""), PyNone, PyInt(404)}

BodyKeys == {"features", "error", "type"}

ValsOf(k) ==
    CASE k = "features" -> FeatureVals
      [] k = "error" -> ErrorVals
      [] k = "type" -> {PyStr("FeatureCollection")}

\* The orders in which a body can hold some of the keys, each once.
KeySeqs ==
    {ks \in UNION {[1..n -> BodyKeys] : n \in 0..Cardinality(BodyKeys)} :
        \A i, j \in 1..Len(ks) : ks[i] = ks[j] => i = j}

DictBodies ==
    UNION {
        {PyDict([i \in 1..Len(ks) |-> <<ks[i], vs[i]>>]) :
            vs \in {f \in [1..Len(ks) -> FeatureVals \cup ErrorVals \cup ValsOf("type")] :
                       \A i \in 1..Len(ks) : f[i] \in ValsOf(ks[i])}}
        : ks \in KeySeqs}

\* Decoded bodies that are not mappings.
OtherBodies ==
    {PyNone, PyBool(FALSE), PyBool(TRUE), PyInt(0), PyInt(5), PyStr(""),
     PyStr("features"), PyList(<<>>), PyList(<<Feature("Paris")>>),
     PyList(<<PyStr("features")>>)}

Bodies == DictBodies \cup OtherBodies


\* The limit argument left out of the call.
NoLimit == [given |-> FALSE, val |-> 0]

Queries == {"10 rue de Rivoli"}

\* The limit argument: omitted, or given.
LimitArgs == {NoLimit, [given |-> TRUE, val |-> 5]}

\* **kwargs of async_search: any keyword but `query` and `limit`, which bind
\* to the named parameters.
SearchKwargs ==
    {<<>>,
     << <<"postcode", PyStr("75004")>> >>,
     << <<"q", PyStr("Lyon")>> >>}

\* **kwargs of async_reverse: any keyword.
ReverseKwargs ==
    {<< <<"lat", PyInt(48)>>, <<"lon", PyInt(2)>> >>,
     << <<"lon", PyInt(2)>>, <<"lat", PyInt(48)>>, <<"limit", PyInt(1)>> >>}

\* The bodies the request layer returns to the calls: features found, none
\* found, no body.
CallBodies ==
    {PyDict(<< <<"features", PyList(<<Feature("10 Rue de Rivoli 75004 Paris")>>)>> >>),
     PyDict(<< <<"features", PyList(<<>>)>> >>),
     PyNone}

NoArgs == [query |-> "", limit |-> NoLimit, kwargs |-> <<>>]

\* The calls made on the client, numbered in the order they start.
Calls == 1..MaxCalls

----------------------------------------------------------------------------
(* The operations *)

InitCalls ==
    /\ pc = [c \in Calls |-> "idle"]
    /\ op = [c \in Calls |-> "none"]
    /\ args = [c \in Calls |-> NoArgs]
    /\ requests = [c \in Calls |-> <<>>]
    /\ reply = [c \in Calls |-> NoReply]
    /\ checked = [c \in Calls |-> 0]
    /\ outcome = [c \in Calls |-> NoOutcome]

Init ==
    /\ InitCalls
    /\ input = PyNone
    /\ result = NoOutcome

\* Call c is the next to start: the calls before it have started, whether
\* or not they have ended.
NextToStart(c) == pc[c] = "idle" /\ \A d \in Calls : d < c => pc[d] # "idle"

\* limit: int = 10 (line 18)
BindLimit(limit) == IF limit.given THEN limit.val ELSE DefaultLimit

\* lines 55-60: the arguments of async_request in async_search
SearchRequest(query, limit, kwargs) ==
    [path |-> API_BASE_URL \o "/search",
     params |-> PyDict(Update(<< <<"q", PyStr(query)>>, <<"limit", PyInt(limit)>> >>,
                              kwargs))]

\* lines 102-103: the arguments of async_request in async_reverse
ReverseRequest(kwargs) ==
    [path |-> API_BASE_URL \o "/reverse",
     params |-> PyDict(Update(<<>>, kwargs))]

\* async_search up to its await (lines 53-61)
async_search(c, query, limit, kwargs) ==
    /\ NextToStart(c)
    /\ pc' = [pc EXCEPT ![c] = "awaiting"]
    /\ op' = [op EXCEPT ![c] = "search"]
    /\ args' = [args EXCEPT ![c] = [query |-> query, limit |-> limit, kwargs |-> kwargs]]
    /\ requests' = [requests EXCEPT
                      ![c] = Append(@, SearchRequest(query, BindLimit(limit), kwargs))]
    /\ UNCHANGED <<reply, checked, outcome, input, result>>

\* async_reverse up to its await (lines 100-104)
async_reverse(c, kwargs) ==
    /\ NextToStart(c)
    /\ pc' = [pc EXCEPT ![c] = "awaiting"]
    /\ op' = [op EXCEPT ![c] = "reverse"]
    /\ args' = [args EXCEPT ![c] = [query |-> "", limit |-> NoLimit, kwargs |-> kwargs]]
    /\ requests' = [requests EXCEPT ![c] = Append(@, ReverseRequest(kwargs))]
    /\ UNCHANGED <<reply, checked, outcome, input, result>>

\* async_request returns the decoded body to coroutine c
async_request_return(c, body) ==
    /\ pc[c] = "awaiting"
    /\ pc' = [pc EXCEPT ![c] = "returned"]
    /\ reply' = [reply EXCEPT ![c] = [kind |-> "body", body |-> body, error |-> ""]]
    /\ UNCHANGED <<op, args, requests, checked, outcome, input, result>>

\* async_request raises into coroutine c
async_request_raise(c, error) ==
    /\ pc[c] = "awaiting"
    /\ pc' = [pc EXCEPT ![c] = "raised"]
    /\ reply' = [reply EXCEPT ![c] = [kind |-> "error", body |-> PyNone, error |-> error]]
    /\ UNCHANGED <<op, args, requests, checked, outcome, input, result>>

\* Variant of SearchExcept: the `from error` left out.
SearchExcept_NoCause(error) ==
    IF IsHttpRequestError(error)
    THEN Raise("AddressNotFound", "Address not found.", "")
    ELSE Raise(error, "", "")

\* lines 62-64: the except clause of async_search; an error it does not catch
\* propagates to the caller as it is.
SearchExcept(error) ==
    IF IsHttpRequestError(error)
    THEN Raise("AddressNotFound", "Address not found.", error)
    ELSE Raise(error, "", "")

\* lines 105-107: the except clause of async_reverse
ReverseExcept(error) ==
    IF IsHttpRequestError(error)
    THEN Raise("AddressNotFound", "Address not found.", error)
    ELSE Raise(error, "", "")

\* Variant of async_search_resume: the request retried once after an error.
async_search_resume_Retry(c) ==
    /\ op[c] = "search"
    /\ \/ /\ pc[c] = "raised"
          /\ Len(requests[c]) < 2
          /\ pc' = [pc EXCEPT ![c] = "awaiting"]
          /\ requests' = [requests EXCEPT ![c] = Append(@, @[1])]
          /\ reply' = [reply EXCEPT ![c] = NoReply]
          /\ UNCHANGED <<checked, outcome>>
       \/ /\ pc[c] = "raised"
          /\ Len(requests[c]) >= 2
          /\ pc' = [pc EXCEPT ![c] = "done"]
          /\ outcome' = [outcome EXCEPT ![c] = SearchExcept(reply[c].error)]
          /\ UNCHANGED <<requests, reply, checked>>
       \/ /\ pc[c] = "returned"
          /\ pc' = [pc EXCEPT ![c] = "done"]
          /\ checked' = [checked EXCEPT ![c] = @ + 1]
          /\ outcome' = [outcome EXCEPT ![c] = _check_response(reply[c].body)]
          /\ UNCHANGED <<requests, reply>>
    /\ UNCHANGED <<op, args, input, result>>

\* async_search from its await on (lines 62-66)
async_search_resume(c) ==
    /\ op[c] = "search"
    /\ \/ /\ pc[c] = "raised"
          /\ outcome' = [outcome EXCEPT ![c] = SearchExcept(reply[c].error)]
          /\ UNCHANGED checked
       \/ /\ pc[c] = "returned"
          /\ checked' = [checked EXCEPT ![c] = @ + 1]
          /\ outcome' = [outcome EXCEPT ![c] = _check_response(reply[c].body)]
    /\ pc' = [pc EXCEPT ![c] = "done"]
    /\ UNCHANGED <<op, args, requests, reply, input, result>>

\* async_reverse from its await on (lines 105-109)
async_reverse_resume(c) ==
    /\ op[c] = "reverse"
    /\ \/ /\ pc[c] = "raised"
          /\ outcome' = [outcome EXCEPT ![c] = ReverseExcept(reply[c].error)]
          /\ UNCHANGED checked
       \/ /\ pc[c] = "returned"
          /\ checked' = [checked EXCEPT ![c] = @ + 1]
          /\ outcome' = [outcome EXCEPT ![c] = _check_response(reply[c].body)]
    /\ pc' = [pc EXCEPT ![c] = "done"]
    /\ UNCHANGED <<op, args, requests, reply, input, result>>

Next ==
    \/ \E c \in Calls, query \in Queries, limit \in LimitArgs, kwargs \in SearchKwargs :
           async_search(c, query, limit, kwargs)
    \/ \E c \in Calls, kwargs \in ReverseKwargs : async_reverse(c, kwargs)
    \/ \E c \in Calls, body \in CallBodies : async_request_return(c, body)
    \/ \E c \in Calls, error \in RaisedErrors : async_request_raise(c, error)
    \/ \E c \in Calls : async_search_resume(c)
    \/ \E c \in Calls : async_reverse_resume(c)

Spec == Init /\ [][Next]_vars

----------------------------------------------------------------------------
(* _check_response applied to every body *)

InitValidator ==
    /\ InitCalls
    /\ input \in Bodies
    /\ result = NoOutcome

\* self._check_response(response), for response = input
check_response ==
    /\ result = NoOutcome
    /\ result' = _check_response(input)
    /\ UNCHANGED <<coros, input>>

NextValidator == check_response

SpecValidator == InitValidator /\ [][NextValidator]_vars

----------------------------------------------------------------------------
(* Vocabulary of the properties, stated on the values themselves *)

\* The body is a mapping that holds key k.
HasKey(body, k) ==
    body.kind = "dict" /\ \E i \in DOMAIN body.val : body.val[i][1] = k

\* The value a mapping holds under key k.
ValueAt(body, k) ==
    LET i == CHOOSE j \in DOMAIN body.val : body.val[j][1] = k IN body.val[i][2]

\* None, False, 0, "", [] or {}.
IsEmpty(v) == v \in EmptyValues

\* The text t occurs in the text s.
Contains(s, t) ==
    \/ Len(t) = 0
    \/ \E i \in 1..(Len(s) - Len(t) + 1) : SubSeq(s, i, i + Len(t) - 1) = t

\* _check_response has been applied to the body.
Validated == result # NoOutcome

\* Call c is over and the request layer had raised a transport error into it.
TransportFailed(c) ==
    pc[c] = "done" /\ reply[c].kind = "error" /\ reply[c].error \in TransportErrors

\* Call c has started.
Started(c) == pc[c] # "idle"

InvalidResponse(o) == o.kind = "raise" /\ o.exc = "AddressFrException"

NotFound(o) == o.kind = "raise" /\ o.exc = "AddressNotFound"

----------------------------------------------------------------------------
(* The properties *)

\* C1: a body that is a mapping holding `features` with a non-empty value
\* makes the validator return exactly that value, whatever other keys (also
\* `error`) the body holds; nothing is raised.
C1_ReturnsFeatures ==
    (Validated /\ HasKey(input, "features")
        /\ ~IsEmpty(ValueAt(input, "features")))
    => result = Return(ValueAt(input, "features"))

C1_Witness ==
    /\ Validated
    /\ HasKey(input, "error")
    /\ HasKey(input, "features")
    /\ ValueAt(input, "features")
         = PyList(<<Feature("Paris"), Feature("10 Rue de Rivoli 75004 Paris")>>)
    /\ result.kind = "return"

\* C2: a body that is a mapping holding `features` with an empty value makes
\* the validator raise AddressNotFound, never AddressFrException and never a
\* return, whatever other keys (also `error`) the body holds.
C2_EmptyFeaturesNotFound ==
    (Validated /\ HasKey(input, "features")
        /\ IsEmpty(ValueAt(input, "features")))
    => /\ NotFound(result)
       /\ result.msg = "No addresses found for the given query."

C2_Witness ==
    /\ Validated
    /\ HasKey(input, "error")
    /\ HasKey(input, "features")
    /\ ValueAt(input, "features") = PyList(<<>>)
    /\ NotFound(result)

\* C3: when the request layer raises a transport error into a call, search
\* and reverse alike raise AddressNotFound("Address not found.") with that
\* error as the cause, and the validator is not invoked.
C3_TransportErrorNotFound ==
    \A c \in Calls :
        TransportFailed(c)
        => /\ outcome[c] = Raise("AddressNotFound", "Address not found.", reply[c].error)
           /\ checked[c] = 0

C3_Witness ==
    \E c \in Calls :
        /\ TransportFailed(c)
        /\ op[c] = "search"
        /\ reply[c].error = "TimeoutExceededError"
        /\ outcome[c].cause = "TimeoutExceededError"

\* C4: a body that is empty (None, {}, [], "", 0, False) or is not a mapping
\* makes the validator raise AddressFrException with the "Invalid response"
\* message, never AddressNotFound.
C4_InvalidBody ==
    (Validated /\ (IsEmpty(input) \/ input.kind # "dict"))
    => /\ InvalidResponse(result)
       /\ Contains(result.msg, "Invalid response")

C4_Witness ==
    /\ Validated
    /\ input = PyDict(<<>>)
    /\ InvalidResponse(result)

\* C5: a non-empty mapping with an `error` key and no `features` key makes
\* the validator raise AddressFrException with a message that contains the
\* error text, not the "No features found" message and not AddressNotFound.
C5_ErrorText ==
    (Validated /\ HasKey(input, "error") /\ ~HasKey(input, "features"))
    => /\ InvalidResponse(result)
       /\ Contains(result.msg, Str(ValueAt(input, "error")))
       /\ ~Contains(result.msg, "No features found")

C5_Witness ==
    /\ Validated
    /\ input = PyDict(<< <<"error", PyStr("bad query")>> >>)
    /\ result.msg = "Error in response: bad query"

\* C6: a non-empty mapping with neither a `features` key nor an `error` key
\* makes the validator raise AddressFrException with the "No features found"
\* message.
C6_NoFeaturesFound ==
    (Validated /\ input.kind = "dict" /\ ~IsEmpty(input)
        /\ ~HasKey(input, "features") /\ ~HasKey(input, "error"))
    => /\ InvalidResponse(result)
       /\ Contains(result.msg, "No features found")

C6_Witness ==
    /\ Validated
    /\ input = PyDict(<< <<"type", PyStr("FeatureCollection")>> >>)
    /\ InvalidResponse(result)

\* C7 as stated: every body that is a mapping holding the key `error`, with or
\* without a `features` key, makes the validator raise AddressFrException.
C7_ErrorAlwaysInvalid ==
    (Validated /\ HasKey(input, "error")) => InvalidResponse(result)

\* C7 as amended: a mapping holding the key `error` makes the validator raise
\* AddressFrException exactly when it holds no `features` key; with a
\* `features` key the first branch decides: a non-empty value is returned, an
\* empty one raises AddressNotFound.
C7_ErrorUnlessFeatures ==
    (Validated /\ HasKey(input, "error"))
    => /\ InvalidResponse(result) <=> ~HasKey(input, "features")
       /\ HasKey(input, "features") =>
            IF IsEmpty(ValueAt(input, "features"))
            THEN NotFound(result)
            ELSE result.kind = "return"

C7_Witness ==
    /\ Validated
    /\ input = PyDict(<< <<"error", PyStr("bad query")>>,
                            <<"features", PyList(<<Feature("Paris")>>)>> >>)
    /\ result = Return(PyList(<<Feature("Paris")>>))

\* The names of the keywords of a call.
KwargNames(kwargs) == {kwargs[i][1] : i \in DOMAIN kwargs}

\* The first request of call c.
Sent(c) == requests[c][1]

\* The statement of C8 for one call.
RequestAsCalled(c) ==
    /\ (Started(c) /\ op[c] = "search") =>
          /\ Sent(c).path = API_BASE_URL \o "/search"
          /\ HasKey(Sent(c).params, "q")
          /\ ValueAt(Sent(c).params, "q") = PyStr(args[c].query)
          /\ HasKey(Sent(c).params, "limit")
          /\ ValueAt(Sent(c).params, "limit")
               = PyInt(IF args[c].limit.given THEN args[c].limit.val ELSE 10)
          /\ \A i \in DOMAIN args[c].kwargs :
                /\ HasKey(Sent(c).params, args[c].kwargs[i][1])
                /\ ValueAt(Sent(c).params, args[c].kwargs[i][1]) = args[c].kwargs[i][2]
          /\ KwargNames(Sent(c).params.val)
               = {"q", "limit"} \cup KwargNames(args[c].kwargs)
    /\ (Started(c) /\ op[c] = "reverse") =>
          /\ Sent(c).path = API_BASE_URL \o "/reverse"
          /\ Sent(c).params = PyDict(args[c].kwargs)

\* C8 as stated: the request of search(query, limit, **extra) targets /search
\* and carries q = query, limit = limit (10 when omitted) and every extra
\* keyword under its own name with its value, also for an extra named `q`;
\* the request of reverse(**params) targets /reverse and carries exactly the
\* keywords given.
C8_RequestParams == \A c \in Calls : RequestAsCalled(c)

\* C8 without an extra keyword named `q`: the statement above, for the calls
\* of search that pass no keyword `q`, and for every call of reverse.
C8_RequestParamsWithoutQ ==
    \A c \in Calls :
        ("q" \in KwargNames(args[c].kwargs) /\ op[c] = "search") \/ RequestAsCalled(c)

\* C9: whatever the body, the validator either returns a non-empty `features`
\* value or raises AddressNotFound or AddressFrException; it never returns
\* None.
C9_Total ==
    Validated =>
        /\ \/ /\ result.kind = "return"
              /\ HasKey(input, "features")
              /\ result.value = ValueAt(input, "features")
              /\ ~IsEmpty(result.value)
           \/ NotFound(result)
           \/ InvalidResponse(result)
        /\ result # Return(PyNone)

C9_Witness ==
    /\ Validated
    /\ input = PyDict(<< <<"type", PyStr("FeatureCollection")>>,
                            <<"features", PyInt(5)>> >>)
    /\ result = Return(PyInt(5))

\* The consequence C9 draws for the calls: a call that ends returns no None.
CallsNeverReturnNone ==
    \A c \in Calls :
        pc[c] = "done" => outcome[c] # Return(PyNone) /\ outcome[c].kind # "none"

\* C10: a call issues exactly one request; once the request has failed or
\* returned a body, the call ends with a result or an error and issues no
\* further request, whatever the other calls of the client do meanwhile.
C10_NoRetry ==
    /\ [](\A c \in Calls :
            /\ pc[c] = "idle" => requests[c] = <<>>
            /\ pc[c] # "idle" => Len(requests[c]) = 1
            /\ pc[c] = "done" => outcome[c].kind \in {"return", "raise"})
    /\ [][\A c \in Calls :
            /\ requests[c] # <<>> => requests'[c] = requests[c]
            /\ (pc[c] \in {"returned", "raised"} /\ pc'[c] # pc[c]) => pc'[c] = "done"
            /\ pc[c] = "done" => pc'[c] = "done"]_vars

C10_Witness ==
    \E c, d \in Calls :
        /\ c # d
        /\ pc[c] = "done"
        /\ reply[c].kind = "error"
        /\ Len(requests[c]) = 1
        /\ outcome[c].kind = "raise"
        /\ pc[d] = "awaiting"

====
